---------------------------- MODULE Spec2Model ----------------------------
(***************************************************************************)
(* Sock Soccer: the authoritative websocket server (socksoccerserver.py),  *)
(* and, in the second part, the tic-tac-toe room server (webserver.py).    *)
(*                                                                         *)
(* The asyncio program is modelled as a state machine whose steps are the  *)
(* stretches of code between two suspension points (await) of a task:      *)
(* game_loop is one task, every connection's handle_client is one task,    *)
(* and the peers (closing, stalling, sending) are the environment.         *)
(*                                                                         *)
(* Numbers.  The program computes in IEEE doubles; the model computes in   *)
(* fixed point.  Lengths and speeds are kept in 1/Scale units (two         *)
(* decimals, the precision snapshot() publishes), times in milliseconds,   *)
(* quotients are truncated toward zero.  NaN is kept as a value of its     *)
(* own: json.loads accepts the literal NaN, every arithmetic operation on  *)
(* it yields NaN and every comparison with it is false, as in Python.      *)
(***************************************************************************)
EXTENDS Integers, Sequences, FiniteSets, TLC

(***************************************************************************)
(* Bounds of the exploration.                                              *)
(***************************************************************************)
\* new connections the server accepts in one run
MaxConns == 2
\* ticks game_loop executes in one run
MaxTicks == 2
\* input messages received in one run
MaxMsgs == 2
\* other messages (ping, malformed) received after the handshake in one run
MaxCtl == 1
\* transport faults (a peer that closes, a peer that stops reading)
MaxFaults == 2
\* tic-tac-toe: connections accepted in one run, beyond those of the scene
MaxJoins == 1
\* tic-tac-toe: moves made in one run of a session scene
MaxMoves == 2
\* tic-tac-toe: resign and restart messages received in one run
MaxAsks == 2
\* tic-tac-toe: connections that close in one run
MaxDrops == 1

(***************************************************************************)
(* Program constants, socksoccerserver.py lines 16-42, in model units.     *)
(***************************************************************************)
Scale == 100
TICK_RATE == 30
\* DT in milliseconds; 1000/30 rounds down, as the double 1/30 behaves in
\* 0.6 - 18*DT, which is 9.7e-17 > 0 in the program
DT == 1000 \div TICK_RATE
FIELD_W == 1200 * Scale
FIELD_H == 700 * Scale
GOAL_W == 20 * Scale
GOAL_H == 220 * Scale
BALL_R == 14 * Scale
PLAYER_R == 18 * Scale
MAX_PLAYERS == 4
WIN_GOALS == 5
ROUND_SECONDS == 180 * 1000
PLAYER_SPEED == 320 * Scale
\* SPRINT_MULT 1.35, PLAYER_FRICTION 0.86, BALL_FRICTION 0.985 as n/1000
SPRINT_MULT == 1350
PLAYER_FRICTION == 860
BALL_FRICTION == 985
KICK_COOLDOWN == 600
KICK_IMPULSE == 540 * Scale
STAMINA_MAX == 100 * Scale
STAMINA_DRAIN == 60 * Scale
STAMINA_REGEN == 40 * Scale
TEAM_RED == 0
TEAM_BLUE == 1

(***************************************************************************)
(* Arithmetic on doubles, in fixed point.                                  *)
(***************************************************************************)
\* the double NaN: a value outside every range the model computes in
NaN == 0 - 1000000000

IsNaN(a) == a = NaN

Abs(a) == IF a < 0 THEN 0 - a ELSE a

\* a + b and a - b
Add(a, b) == IF IsNaN(a) \/ IsNaN(b) THEN NaN ELSE a + b

Sub(a, b) == IF IsNaN(a) \/ IsNaN(b) THEN NaN ELSE a - b

\* a * n / d, truncated toward zero
MulQ(a, n, d) ==
    IF IsNaN(a) \/ IsNaN(n) THEN NaN
    ELSE IF (a < 0) = (n < 0) THEN (Abs(a) * Abs(n)) \div d
         ELSE 0 - ((Abs(a) * Abs(n)) \div d)

\* a < b and a > b: false when either side is NaN
Lt(a, b) == ~IsNaN(a) /\ ~IsNaN(b) /\ a < b

Gt(a, b) == ~IsNaN(a) /\ ~IsNaN(b) /\ a > b

\* abs(a)
FAbs(a) == IF IsNaN(a) THEN NaN ELSE Abs(a)

\* round(a / q): to the nearest multiple, halves away from zero
RoundQ(a, q) ==
    IF IsNaN(a) THEN NaN
    ELSE IF a < 0 THEN 0 - ((2 * (0 - a) + q) \div (2 * q))
         ELSE (2 * a + q) \div (2 * q)

\* math.sqrt / math.hypot on non-negative integers: the integer square root
RECURSIVE SqrtIter(_, _, _)
SqrtIter(n, lo, hi) ==
    IF lo >= hi THEN lo
    ELSE LET mid == (lo + hi + 1) \div 2
         IN  IF mid * mid <= n THEN SqrtIter(n, mid, hi)
             ELSE SqrtIter(n, lo, mid - 1)

Sqrt(n) == SqrtIter(n, 0, 46340)

\* max(a, min(b, v)): Python's min and max keep their first argument unless
\* the second compares smaller (larger)
\* a variant of clamp without the lower bound: StaminaBounded tells it from
\* clamp
clamp_above(v, a, b) == IF Lt(v, b) THEN v ELSE b

clamp(v, a, b) ==
    LET m == IF Lt(v, b) THEN v ELSE b
    IN  IF Gt(m, a) THEN m ELSE a


(***************************************************************************)
(* The entity model: Player, Ball, Game (lines 46-81).  players is the     *)
(* dict in insertion order, a sequence of Player records; a pid is the id  *)
(* of the connection that joined, and sockets is the set of connections    *)
(* registered under their pid.                                             *)
(***************************************************************************)
Player(pid, team, x, y) ==
    [pid |-> pid, team |-> team, x |-> x, y |-> y, vx |-> 0, vy |-> 0,
     cooldown |-> 0, stamina |-> STAMINA_MAX]

Ball(x, y) == [x |-> x, y |-> y, vx |-> 0, vy |-> 0]

\* Game(): the state after construction, the clock reading t
Game(t) ==
    [players |-> << >>, sockets |-> {},
     ball |-> Ball(FIELD_W \div 2, FIELD_H \div 2),
     score_red |-> 0, score_blue |-> 0,
     round_end_ts |-> t + ROUND_SECONDS,
     last_event |-> "", last_event_t |-> 0]

\* q * dt for a rate q per second, dt = 1 / TICK_RATE
TimesDt(q) == MulQ(q, 1, TICK_RATE)

Pids(g) == {g.players[i].pid : i \in 1..Len(g.players)}

\* the position in players of the player pid, 0 when there is none
IndexOf(g, pid) ==
    IF pid \in Pids(g)
    THEN CHOOSE i \in 1..Len(g.players) : g.players[i].pid = pid
    ELSE 0

(***************************************************************************)
(* reset_positions (lines 88-104).  random.uniform(-20, 20) is drawn by    *)
(* the caller: jit[i] is the pair of offsets of the i-th player.           *)
(***************************************************************************)
red_slots == << <<FIELD_W \div 4, (FIELD_H * 4) \div 10>>,
                <<FIELD_W \div 4, (FIELD_H * 6) \div 10>> >>

blue_slots == << <<(FIELD_W * 3) \div 4, (FIELD_H * 4) \div 10>>,
                 <<(FIELD_W * 3) \div 4, (FIELD_H * 6) \div 10>> >>

\* a variant of SlotIndex that counts the players of both teams with one
\* counter: DistinctSlots tells it from SlotIndex
SlotIndexShared(ps, i) == i - 1

\* r_i (b_i) when the loop reaches the i-th player: the earlier players of
\* the same team (lines 92-97)
SlotIndex(ps, i) ==
    Cardinality({j \in 1..(i - 1) : ps[j].team = ps[i].team})

SlotOf(ps, i) ==
    IF ps[i].team = TEAM_RED
    THEN red_slots[(SlotIndex(ps, i) % Len(red_slots)) + 1]
    ELSE blue_slots[(SlotIndex(ps, i) % Len(blue_slots)) + 1]

reset_positions(g, jit, after_goal, t) ==
    [g EXCEPT
       !.players = [i \in 1..Len(g.players) |->
                      [g.players[i] EXCEPT
                         !.x = SlotOf(g.players, i)[1] + jit[i][1],
                         !.y = SlotOf(g.players, i)[2] + jit[i][2],
                         !.vx = 0, !.vy = 0, !.cooldown = 0]],
       !.ball = Ball(FIELD_W \div 2, FIELD_H \div 2),
       !.last_event_t = IF after_goal THEN t ELSE g.last_event_t]

(***************************************************************************)
(* Teams and membership (lines 106-128).                                   *)
(***************************************************************************)
team_counts(g) ==
    << Cardinality({i \in 1..Len(g.players) : g.players[i].team = TEAM_RED}),
       Cardinality({i \in 1..Len(g.players) : g.players[i].team = TEAM_BLUE}) >>

\* a variant of assign_team that gives a tie to Blue: TeamAssignment tells
\* it from assign_team
assign_team_strict(g) ==
    IF team_counts(g)[1] < team_counts(g)[2] THEN TEAM_RED ELSE TEAM_BLUE

\* a variant of assign_team that fills the larger team: TeamBalance tells it
\* from assign_team
assign_team_larger(g) ==
    IF team_counts(g)[1] >= team_counts(g)[2] THEN TEAM_RED ELSE TEAM_BLUE

\* lines 111-113
assign_team(g) ==
    IF team_counts(g)[1] <= team_counts(g)[2] THEN TEAM_RED ELSE TEAM_BLUE

add_player(g, pid) ==
    LET team == assign_team(g)
        p == Player(pid, team,
                    IF team = TEAM_RED THEN FIELD_W \div 4
                    ELSE (FIELD_W * 3) \div 4,
                    FIELD_H \div 2)
    IN  [g EXCEPT !.players = Append(g.players, p)]

\* a variant of remove_player that leaves the socket registered:
\* RegistryConsistent tells it from remove_player
remove_player_only(g, pid) ==
    [g EXCEPT !.players = SelectSeq(g.players, LAMBDA p : p.pid # pid)]

\* lines 124-128
remove_player(g, pid) ==
    [g EXCEPT
       !.players = SelectSeq(g.players, LAMBDA p : p.pid # pid),
       !.sockets = g.sockets \ {pid}]

(***************************************************************************)
(* physics_player (lines 130-140).                                         *)
(***************************************************************************)
physics_player(p) ==
    LET vx1 == MulQ(p.vx, PLAYER_FRICTION, 1000)
        vy1 == MulQ(p.vy, PLAYER_FRICTION, 1000)
        x1 == Add(p.x, TimesDt(vx1))
        y1 == Add(p.y, TimesDt(vy1))
        lo == PLAYER_R
        hiX == FIELD_W - PLAYER_R
        hiY == FIELD_H - PLAYER_R
        x2 == IF Lt(x1, lo) THEN lo ELSE x1
        vx2 == IF Lt(x1, lo) THEN 0 ELSE vx1
        x3 == IF Gt(x2, hiX) THEN hiX ELSE x2
        vx3 == IF Gt(x2, hiX) THEN 0 ELSE vx2
        y2 == IF Lt(y1, lo) THEN lo ELSE y1
        vy2 == IF Lt(y1, lo) THEN 0 ELSE vy1
        y3 == IF Gt(y2, hiY) THEN hiY ELSE y2
        vy3 == IF Gt(y2, hiY) THEN 0 ELSE vy2
    IN  [p EXCEPT !.x = x3, !.y = y3, !.vx = vx3, !.vy = vy3]

(***************************************************************************)
(* score_goal (lines 202-210).                                             *)
(***************************************************************************)
\* a variant of score_goal that credits the other team: GoalAttribution
\* tells it from score_goal
score_goal_swapped(g, scoring_team, jit, t) ==
    LET g1 == IF scoring_team = TEAM_RED
              THEN [g EXCEPT !.score_blue = g.score_blue + 1,
                             !.last_event = "GOAL! Blue +1"]
              ELSE [g EXCEPT !.score_red = g.score_red + 1,
                             !.last_event = "GOAL! Red +1"]
    IN  reset_positions(g1, jit, TRUE, t)

score_goal(g, scoring_team, jit, t) ==
    LET g1 == IF scoring_team = TEAM_RED
              THEN [g EXCEPT !.score_red = g.score_red + 1,
                             !.last_event = "GOAL! Red +1"]
              ELSE [g EXCEPT !.score_blue = g.score_blue + 1,
                             !.last_event = "GOAL! Blue +1"]
    IN  reset_positions(g1, jit, TRUE, t)

(***************************************************************************)
(* physics_ball (lines 142-200).                                           *)
(***************************************************************************)
goal_top == (FIELD_H - GOAL_H) \div 2

goal_bottom == goal_top + GOAL_H

\* lines 144-147: integration, then friction
\* a variant of BallMove that leaves the friction out: KickEndToEnd tells it
\* from BallMove
BallMoveUndamped(b) ==
    [x |-> Add(b.x, TimesDt(b.vx)), y |-> Add(b.y, TimesDt(b.vy)),
     vx |-> b.vx, vy |-> b.vy]

BallMove(b) ==
    [x |-> Add(b.x, TimesDt(b.vx)), y |-> Add(b.y, TimesDt(b.vy)),
     vx |-> MulQ(b.vx, BALL_FRICTION, 1000),
     vy |-> MulQ(b.vy, BALL_FRICTION, 1000)]

\* lines 154-160
LeftWall(g, jit, t) ==
    IF Lt(Sub(g.ball.x, BALL_R), 0)
    THEN IF Lt(goal_top, g.ball.y) /\ Lt(g.ball.y, goal_bottom)
         THEN score_goal(g, TEAM_BLUE, jit, t)
         ELSE [g EXCEPT !.ball.x = BALL_R,
                        !.ball.vx = MulQ(FAbs(g.ball.vx), 7, 10)]
    ELSE g

\* lines 161-167
RightWall(g, jit, t) ==
    IF Gt(Add(g.ball.x, BALL_R), FIELD_W)
    THEN IF Lt(goal_top, g.ball.y) /\ Lt(g.ball.y, goal_bottom)
         THEN score_goal(g, TEAM_RED, jit, t)
         ELSE [g EXCEPT !.ball.x = FIELD_W - BALL_R,
                        !.ball.vx = 0 - MulQ(FAbs(g.ball.vx), 7, 10)]
    ELSE g

\* lines 168-172
TopBottom(b) ==
    LET b1 == IF Lt(Sub(b.y, BALL_R), 0)
              THEN [b EXCEPT !.y = BALL_R, !.vy = MulQ(FAbs(b.vy), 7, 10)]
              ELSE b
    IN  IF Gt(Add(b1.y, BALL_R), FIELD_H)
        THEN [b1 EXCEPT !.y = FIELD_H - BALL_R,
                        !.vy = 0 - MulQ(FAbs(b1.vy), 7, 10)]
        ELSE b1

\* dx*dx + dy*dy < r*r, false on NaN; the products are formed only when
\* both legs are shorter than r
Within(dx, dy, r) ==
    /\ ~IsNaN(dx) /\ ~IsNaN(dy)
    /\ Abs(dx) < r /\ Abs(dy) < r
    /\ dx * dx + dy * dy < r * r

\* lines 176-196: the ball after the collision test against player p.  The
\* unit normal is kept in thousandths.
Collide(b, p) ==
    LET dx == Sub(b.x, p.x)
        dy == Sub(b.y, p.y)
        rad == BALL_R + PLAYER_R
    IN  IF ~Within(dx, dy, rad) THEN b
        ELSE
        LET dist2 == dx * dx + dy * dy
            dist == Sqrt(dist2)
            \* dist2 = 0: dist is 0.0001 and the normal 0 / 0.0001 = 0
            nx == IF dist2 > 0 THEN MulQ(dx, 1000, dist) ELSE 0
            ny == IF dist2 > 0 THEN MulQ(dy, 1000, dist) ELSE 0
            overlap == rad - dist
            x1 == Add(b.x, MulQ(nx * overlap, 6, 10000))
            y1 == Add(b.y, MulQ(ny * overlap, 6, 10000))
            rel_vx == Sub(b.vx, p.vx)
            rel_vy == Sub(b.vy, p.vy)
            dot == MulQ(Add(MulQ(rel_vx, nx, 1), MulQ(rel_vy, ny, 1)), 1, 1000)
            vx1 == IF Lt(dot, 0) THEN Sub(b.vx, MulQ(nx, dot, 1000)) ELSE b.vx
            vy1 == IF Lt(dot, 0) THEN Sub(b.vy, MulQ(ny, dot, 1000)) ELSE b.vy
        IN  [x |-> x1, y |-> y1,
             vx |-> Add(vx1, MulQ(p.vx, 25, 100)),
             vy |-> Add(vy1, MulQ(p.vy, 25, 100))]

\* line 175: for p in self.players.values(), from the i-th player on
RECURSIVE CollideAll(_, _, _)
CollideAll(b, ps, i) ==
    IF i > Len(ps) THEN b ELSE CollideAll(Collide(b, ps[i]), ps, i + 1)

\* a variant of ClampTiny that clamps a tiny speed to the threshold instead
\* of zero: RestIsFixed tells it from ClampTiny
ClampTinyUp(b) ==
    [b EXCEPT !.vx = IF Lt(FAbs(b.vx), 4 * Scale) THEN 4 * Scale ELSE b.vx,
              !.vy = IF Lt(FAbs(b.vy), 4 * Scale) THEN 4 * Scale ELSE b.vy]

\* lines 198-200
ClampTiny(b) ==
    [b EXCEPT !.vx = IF Lt(FAbs(b.vx), 4 * Scale) THEN 0 ELSE b.vx,
              !.vy = IF Lt(FAbs(b.vy), 4 * Scale) THEN 0 ELSE b.vy]

physics_ball(g, jit, t) ==
    LET g1 == [g EXCEPT !.ball = BallMove(g.ball)]
        g2 == LeftWall(g1, jit, t)
        g3 == RightWall(g2, jit, t)
        b4 == TopBottom(g3.ball)
        b5 == CollideAll(b4, g3.players, 1)
    IN  [g3 EXCEPT !.ball = ClampTiny(b5)]

(***************************************************************************)
(* handle_input (lines 212-256), for the i-th player.  An input is the     *)
(* decoded "data" object: up, down, left, right are 0, 1 (false, true) or  *)
(* any number, NaN included; sprint and kick are truth values; aimx and    *)
(* aimy are numbers in thousandths.                                        *)
(***************************************************************************)
KickRange == PLAYER_R + BALL_R + 6 * Scale

\* lines 244-251: the unit direction of the kick, in thousandths
KickDir(inp, dx, dy) ==
    LET mag == Sqrt(inp.aimx * inp.aimx + inp.aimy * inp.aimy)
    IN  IF mag < 200
        THEN IF dx = 0 /\ dy = 0 THEN <<1000, 0>>
             ELSE LET m == Sqrt(dx * dx + dy * dy)
                  IN  <<MulQ(dx, 1000, m), MulQ(dy, 1000, m)>>
        ELSE <<MulQ(inp.aimx, 1000, mag), MulQ(inp.aimy, 1000, mag)>>

\* a variant of MayKick that forgets the cooldown: NoKickUnderCooldown tells it
\* from MayKick
MayKickAlways(p, inp) == inp.kick

\* line 238: if kick and p.cooldown <= 0.0
MayKick(p, inp) == inp.kick /\ p.cooldown <= 0

\* a variant of StartsCooldown that spares the cooldown of a kick that
\* misses: KickConsumesCooldown tells it from StartsCooldown
StartsCooldownOnHit(kicks, hits) == hits

\* line 256 is in the body of the if of line 238, outside the if of line 242
StartsCooldown(kicks, hits) == kicks

handle_input(g, i, inp, t) ==
    LET p == g.players[i]
        speed == IF inp.sprint /\ Gt(p.stamina, 0)
                 THEN MulQ(PLAYER_SPEED, SPRINT_MULT, 1000)
                 ELSE PLAYER_SPEED
        ax == MulQ(Sub(inp.right, inp.left), speed, 1)
        ay == MulQ(Sub(inp.down, inp.up), speed, 1)
        st == IF inp.sprint /\ (Gt(FAbs(ax), 0) \/ Gt(FAbs(ay), 0))
              THEN p.stamina - TimesDt(STAMINA_DRAIN)
              ELSE p.stamina + TimesDt(STAMINA_REGEN)
        p1 == [p EXCEPT !.vx = Add(p.vx, TimesDt(ax)),
                        !.vy = Add(p.vy, TimesDt(ay)),
                        !.stamina = clamp(st, 0, STAMINA_MAX)]
        dx == Sub(g.ball.x, p.x)
        dy == Sub(g.ball.y, p.y)
        kicks == MayKick(p, inp)
        \* dx*dx + dy*dy <= KickRange^2
        hits == kicks /\ Within(dx, dy, KickRange + 1)
                      /\ dx * dx + dy * dy <= KickRange * KickRange
        u == KickDir(inp, dx, dy)
        p2 == IF StartsCooldown(kicks, hits)
              THEN [p1 EXCEPT !.cooldown = KICK_COOLDOWN] ELSE p1
        g1 == [g EXCEPT !.players[i] = p2]
    IN  IF hits
        THEN [g1 EXCEPT
                !.ball.vx = Add(g.ball.vx, MulQ(KICK_IMPULSE, u[1], 1000)),
                !.ball.vy = Add(g.ball.vy, MulQ(KICK_IMPULSE, u[2], 1000)),
                !.last_event = "kicked!",
                !.last_event_t = t]
        ELSE g1

(***************************************************************************)
(* round_over, winner_text, snapshot (lines 258-285).                      *)
(***************************************************************************)
\* a variant of round_over that lets the deadline itself pass: RoundTermination
\* tells it from round_over
round_over_late(g, t) ==
    IF g.score_red >= WIN_GOALS \/ g.score_blue >= WIN_GOALS THEN TRUE
    ELSE t > g.round_end_ts

\* a variant of round_over that lets a team reach WIN_GOALS and play on:
\* SnapshotBelowWin tells it from round_over
round_over_above(g, t) ==
    IF g.score_red > WIN_GOALS \/ g.score_blue > WIN_GOALS THEN TRUE
    ELSE t >= g.round_end_ts

\* lines 258-261
round_over(g, t) ==
    IF g.score_red >= WIN_GOALS \/ g.score_blue >= WIN_GOALS THEN TRUE
    ELSE t >= g.round_end_ts

\* a variant of winner_text that gives a drawn round to Red: RoundResult
\* tells it from winner_text
winner_text_ties_red(g) ==
    IF g.score_red >= g.score_blue THEN "Red wins!" ELSE "Blue wins!"

\* lines 263-266
winner_text(g) ==
    IF g.score_red > g.score_blue THEN "Red wins!"
    ELSE IF g.score_blue > g.score_red THEN "Blue wins!"
    ELSE "Draw!"

\* round(x, 2) of a length or speed: the model's unit is already 0.01;
\* stamina is rounded to tenths, the cooldown (ms) to hundredths of a second
snapshot(g, t) ==
    [score |-> <<g.score_red, g.score_blue>>,
     timer |-> IF g.round_end_ts - t > 0
               THEN (g.round_end_ts - t) \div 1000 ELSE 0,
     players |-> [i \in 1..Len(g.players) |->
                    [id |-> g.players[i].pid, team |-> g.players[i].team,
                     x |-> RoundQ(g.players[i].x, 1),
                     y |-> RoundQ(g.players[i].y, 1),
                     vx |-> RoundQ(g.players[i].vx, 1),
                     vy |-> RoundQ(g.players[i].vy, 1),
                     stamina |-> RoundQ(g.players[i].stamina, 10),
                     cooldown |-> RoundQ(g.players[i].cooldown, 10)]],
     ball |-> [x |-> RoundQ(g.ball.x, 1), y |-> RoundQ(g.ball.y, 1),
               vx |-> RoundQ(g.ball.vx, 1), vy |-> RoundQ(g.ball.vy, 1)],
     event |-> IF t - g.last_event_t < 1200 THEN g.last_event ELSE ""]

(***************************************************************************)
(* Tic-tac-toe (webserver.py): the game and the room.                      *)
(*                                                                         *)
(* None is the string "None"; a websocket is the number of its connection, *)
(* 0 when a seat holds None.  A value of a message that is no integer      *)
(* (a string, a float, null) is NoInt.  The turn timer is switched off     *)
(* (ENABLE_TURN_TIMER, line 17), so turn_deadline_ms stays None and is     *)
(* left out, as are the display names.                                     *)
(***************************************************************************)
MARKS == <<"X", "O">>

BOARD_SIZE == 3

NoInt == 0 - 1000

Cells == (0..(BOARD_SIZE - 1)) \X (0..(BOARD_SIZE - 1))

\* lines 35-38
TicTacToe ==
    [board |-> [rc \in Cells |-> ""], turn |-> "O", winner |-> "None"]

\* the rows, the columns, the main and the anti diagonal, in the order in
\* which check_win looks at them (lines 48-66)
Lines ==
    [r \in 1..BOARD_SIZE |-> [c \in 1..BOARD_SIZE |-> <<r - 1, c - 1>>]]
    \o [c \in 1..BOARD_SIZE |-> [r \in 1..BOARD_SIZE |-> <<r - 1, c - 1>>]]
    \o << [i \in 1..BOARD_SIZE |-> <<i - 1, i - 1>>],
          [i \in 1..BOARD_SIZE |-> <<i - 1, BOARD_SIZE - i>>] >>

\* line 44
line_winner(board, line) ==
    IF board[line[1]] # ""
       /\ \A k \in 1..Len(line) : board[line[k]] = board[line[1]]
    THEN board[line[1]] ELSE ""

\* lines 46-67: the mark of the first line that has a winner
check_win(board) ==
    LET won == {k \in 1..Len(Lines) : line_winner(board, Lines[k]) # ""}
    IN  IF won = {} THEN ""
        ELSE line_winner(board,
                         Lines[CHOOSE k \in won : \A j \in won : k <= j])

\* line 70
is_full(board) == \A rc \in Cells : board[rc] # ""

\* a variant of Occupied that lets a move take a square that is taken:
\* MoveLegality tells it from Occupied
OccupiedNever(board, row, col) == FALSE

\* line 77
Occupied(board, row, col) == board[<<row, col>>] # ""

\* lines 72-92: the game after play(row, col, mark), and what play returns
play(g, row, col, mark) ==
    IF g.winner # "None"
    THEN [game |-> g, type |-> "error", code |-> "game_finished"]
    ELSE IF ~(0 <= row /\ row < BOARD_SIZE /\ 0 <= col /\ col < BOARD_SIZE)
    THEN [game |-> g, type |-> "error", code |-> "bad_coords"]
    ELSE IF Occupied(g.board, row, col)
    THEN [game |-> g, type |-> "error", code |-> "space_full"]
    ELSE IF g.turn # mark
    THEN [game |-> g, type |-> "error", code |-> "not_your_turn"]
    ELSE LET b == [g.board EXCEPT ![<<row, col>>] = mark]
             win == check_win(b)
         IN  IF win # ""
             THEN [game |-> [g EXCEPT !.board = b, !.winner = win],
                   type |-> "game_over", code |-> win]
             ELSE IF is_full(b)
             THEN [game |-> [g EXCEPT !.board = b, !.winner = "draw"],
                   type |-> "game_over", code |-> "draw"]
             ELSE [game |-> [g EXCEPT !.board = b,
                                      !.turn = IF g.turn = "X" THEN "O"
                                               ELSE "X"],
                   type |-> "board_update", code |-> ""]

\* lines 96-105
Room ==
    [players |-> [m \in {"X", "O"} |-> 0],
     spectators |-> {},
     role_by_ws |-> << >>,
     scores |-> [m \in {"X", "O"} |-> 0],
     game |-> TicTacToe,
     awaiting_restart_from |-> {},
     next_starting_mark |-> "O"]

\* the role of connection ws, "None" when it has none (role_by_ws.get)
RoleOf(r, ws) ==
    IF ws \in DOMAIN r.role_by_ws THEN r.role_by_ws[ws] ELSE "None"

\* lines 108-117
assign_role(r, ws) ==
    IF r.players["X"] = 0
    THEN [r EXCEPT !.players["X"] = ws, !.role_by_ws = @ @@ (ws :> "X")]
    ELSE IF r.players["O"] = 0
    THEN [r EXCEPT !.players["O"] = ws, !.role_by_ws = @ @@ (ws :> "O")]
    ELSE [r EXCEPT !.spectators = @ \cup {ws},
                   !.role_by_ws = @ @@ (ws :> "spectator")]

\* lines 122-125
opponent_mark(mark) ==
    IF mark \notin {"X", "O"} THEN "None"
    ELSE IF mark = "X" THEN "O" ELSE "X"

\* lines 127-128
ws_for_mark(r, mark) == r.players[mark]

\* lines 130-136
drop_ws(r, ws) ==
    LET role == RoleOf(r, ws)
        r1 == [r EXCEPT !.role_by_ws =
                  [w \in (DOMAIN r.role_by_ws) \ {ws} |-> r.role_by_ws[w]]]
    IN  IF role \in {"X", "O"} THEN [r1 EXCEPT !.players[role] = 0]
        ELSE IF role = "spectator" THEN [r1 EXCEPT !.spectators = @ \ {ws}]
        ELSE r1

\* lines 139-145
start_new_game(r) ==
    [r EXCEPT !.game = [TicTacToe EXCEPT !.turn = r.next_starting_mark],
              !.next_starting_mark = IF r.next_starting_mark = "X" THEN "O"
                                     ELSE "X",
              !.awaiting_restart_from = {}]

\* lines 153-155
record_game_over(r, winner) ==
    IF winner \in {"X", "O"} THEN [r EXCEPT !.scores[winner] = @ + 1] ELSE r

(***************************************************************************)
(* The running server.                                                     *)
(*                                                                         *)
(* game   the module-level Game object (line 287)                          *)
(* now    time.time(), in ms since the start of the run                    *)
(* snap   the data of the last state message built (line 355)              *)
(* net    per connection, the transport as the server sees it: "open",     *)
(*        "stalled" (the peer does not read: a send does not complete) or  *)
(*        "closed" (a send raises ConnectionClosed)                        *)
(* pc     per connection, where its handle_client task is suspended        *)
(* loop_pc  where game_loop is suspended                                   *)
(* wait   per task (0 is game_loop), the connections whose ws.send the     *)
(*        task's await is still waiting for                                *)
(* exc    per task, whether a ws.send the task awaits has raised           *)
(* nconn  the connections accepted so far: the next one gets id nconn + 1  *)
(* left   what the run may still take of each bounded kind of step         *)
(* ev     the step just taken and the messages it delivered; for a tick,   *)
(*        the goal it scored, whether it ended the round and the inputs    *)
(*        received since the tick before                                   *)
(* hist   the game when the last step other than an input changed it, and  *)
(*        the inputs received since, in order                              *)
(***************************************************************************)
VARIABLES game, now, snap, net, pc, loop_pc, wait, exc, nconn, left, ev, hist

\* the variables of the soccer server
svars == <<game, now, snap, net, pc, loop_pc, wait, exc, nconn, left, ev,
           hist>>

(***************************************************************************)
(* The running tic-tac-toe server.                                         *)
(*                                                                         *)
(* room   the module-level Room object (line 176)                          *)
(* tnet   per connection, the transport: "open" or "closed"                *)
(* tpc    per connection, where its handler is: "idle" (not connected),    *)
(*        "loop" (between two messages, line 229), "offer" (suspended in   *)
(*        the send of line 310), "done"                                    *)
(* tleft  the steps of each bounded kind the run may still take            *)
(* tev    the last step: its operation, its connection, what play or the   *)
(*        handler answered, whether it called start_new_game; and the      *)
(*        connections that have sent restart_request or restart_accept as  *)
(*        players, and the sum of the scores, of the moment the current    *)
(*        game began                                                       *)
(***************************************************************************)
VARIABLES room, tnet, tpc, tleft, tev

\* the variables of the tic-tac-toe server
tvars == <<room, tnet, tpc, tleft, tev>>

vars == <<game, now, snap, net, pc, loop_pc, wait, exc, nconn, left, ev,
          hist, room, tnet, tpc, tleft, tev>>

Conns == 1..(MAX_PLAYERS + MaxConns)

Tasks == 0..(MAX_PLAYERS + MaxConns)

\* game_loop is task 0
LOOP == 0

Ev(op, c, msg, to) ==
    [op |-> op, c |-> c, msg |-> msg, to |-> to, goal |-> 0 - 1, over |-> FALSE,
     ins |-> << >>]

\* a step that is no input: when it changes the game, the inputs before it
\* are history
Sync ==
    hist' = IF game' = game THEN hist ELSE [base |-> game', ins |-> << >>]

NoSnap == [score |-> <<0, 0>>, timer |-> 0, players |-> << >>,
           ball |-> Ball(0, 0), event |-> "none"]

\* the process is running: game_loop has not been ended by an exception
\* (main() awaits game_loop(), so the exception ends asyncio.run)
Alive == loop_pc # "crashed"

(***************************************************************************)
(* broadcast (lines 83-86): asyncio.gather of one ws.send per registered   *)
(* socket, without return_exceptions.  Every send is started; a send to an *)
(* open transport completes, a send to a stalled one stays outstanding, a  *)
(* send to a closed one raises, and the first exception is raised in the   *)
(* awaiting task while the other sends go on.                              *)
(***************************************************************************)
Delivered(g) == {c \in g.sockets : net[c] = "open"}

Outstanding(g) == {c \in g.sockets : net[c] = "stalled"}

Raises(g) == \E c \in g.sockets : net[c] = "closed"

\* random.uniform(-20, 20), twice per player: the offsets a reset may draw
Jitters == {<<0 - 20 * Scale, 0 - 20 * Scale>>, <<20 * Scale, 20 * Scale>>}

JitterSeqs(n) == [1..n -> Jitters]

NoJitter(n) == [i \in 1..n |-> <<0, 0>>]

(***************************************************************************)
(* handle_client (lines 289-327).                                          *)
(***************************************************************************)
\* websockets.serve accepts a connection and starts its handler, which
\* suspends in ws.recv() (line 292)
Connect ==
    /\ Alive
    /\ left.conns > 0
    /\ left' = [left EXCEPT !.conns = @ - 1]
    /\ nconn' = nconn + 1
    /\ pc' = [pc EXCEPT ![nconn + 1] = "handshake"]
    /\ net' = [net EXCEPT ![nconn + 1] = "open"]
    /\ ev' = Ev("connect", nconn + 1, "", {})
    /\ UNCHANGED <<game, now, snap, loop_pc, wait, exc, hist>>
    /\ UNCHANGED tvars

\* the finally block (lines 320-327), run by connection c on the game g:
\* the new game, and whether the leave toast is awaited
FinallyGame(g, c) == IF c \in Pids(g) THEN remove_player(g, c) ELSE g

FinallyAwaits(g, c) == c \in Pids(g) /\ FinallyGame(g, c).sockets # {}

\* the handler of c leaves its try block now (ConnectionClosed or another
\* exception) and runs finally
Finally(c, op) ==
    LET g1 == FinallyGame(game, c)
    IN  /\ game' = g1
        /\ IF FinallyAwaits(game, c)
           THEN /\ pc' = [pc EXCEPT ![c] = "leavecast"]
                /\ wait' = [wait EXCEPT ![c] = Outstanding(g1)]
                /\ exc' = [exc EXCEPT ![c] = Raises(g1)]
                /\ net' = net
                /\ ev' = Ev(op, c, "left", Delivered(g1))
           ELSE /\ pc' = [pc EXCEPT ![c] = "done"]
                /\ wait' = [wait EXCEPT ![c] = {}]
                /\ exc' = [exc EXCEPT ![c] = FALSE]
                /\ net' = [net EXCEPT ![c] = "closed"]
                /\ ev' = Ev(op, c, "", {})

JoinMsgs == {"join", "other", "garbage"}

\* a variant of RoomFull that lets one player more in: RoomCapacity tells it
\* from RoomFull
RoomOverfull(g) == Len(g.players) > MAX_PLAYERS

\* line 294: len(game.players) >= MAX_PLAYERS
RoomFull(g) == Len(g.players) >= MAX_PLAYERS

\* lines 292-303: the first message m arrives.  "garbage" is a text that is
\* no JSON object: json.loads or msg.get raises, and no except clause
\* catches it.
Handshake(c, m) ==
    /\ Alive
    /\ pc[c] = "handshake" /\ net[c] # "closed"
    /\ IF m = "garbage"
       THEN /\ pc' = [pc EXCEPT ![c] = "done"]
            /\ net' = [net EXCEPT ![c] = "closed"]
            /\ ev' = Ev("badjoin", c, "", {})
            /\ UNCHANGED <<game, wait, exc>>
       ELSE IF m # "join" \/ RoomFull(game)
       THEN \* await ws.send(reject); return
            /\ pc' = [pc EXCEPT ![c] = "reject"]
            /\ wait' = [wait EXCEPT
                          ![c] = IF net[c] = "stalled" THEN {c} ELSE {}]
            /\ ev' = Ev(IF m = "join" THEN "full" ELSE "badtype", c, "reject",
                        IF net[c] = "open" THEN {c} ELSE {})
            /\ UNCHANGED <<game, net, exc>>
       ELSE \* add_player, sockets[pid] = ws, await ws.send(welcome)
            /\ game' = [add_player(game, c) EXCEPT !.sockets = @ \cup {c}]
            /\ pc' = [pc EXCEPT ![c] = "welcome"]
            /\ wait' = [wait EXCEPT
                          ![c] = IF net[c] = "stalled" THEN {c} ELSE {}]
            /\ ev' = Ev("join", c, "welcome",
                        IF net[c] = "open" THEN {c} ELSE {})
            /\ UNCHANGED <<net, exc>>
    /\ Sync
    /\ UNCHANGED <<now, snap, loop_pc, nconn, left>>
    /\ UNCHANGED tvars

\* ws.recv() raises ConnectionClosed before any first message (line 292)
HandshakeClosed(c) ==
    /\ Alive
    /\ pc[c] = "handshake" /\ net[c] = "closed"
    /\ pc' = [pc EXCEPT ![c] = "done"]
    /\ ev' = Ev("closed", c, "", {})
    /\ UNCHANGED <<game, now, snap, net, loop_pc, wait, exc,
                   nconn, left, hist>>
    /\ UNCHANGED tvars

\* the await of c (reject, welcome, join toast, pong or leave toast) ends:
\* with the sends complete, or with ConnectionClosed raised by one of them
HandlerResume(c) ==
    /\ Alive
    /\ pc[c] \in {"reject", "welcome", "joincast", "pong", "leavecast"}
    /\ exc[c] \/ wait[c] = {}
    /\ IF pc[c] = "leavecast" \/ (pc[c] = "reject" /\ ~exc[c])
       THEN /\ pc' = [pc EXCEPT ![c] = "done"]
            /\ wait' = [wait EXCEPT ![c] = {}]
            /\ exc' = [exc EXCEPT ![c] = FALSE]
            /\ net' = [net EXCEPT ![c] = "closed"]
            /\ ev' = Ev(IF pc[c] = "reject" THEN "rejected" ELSE "left",
                        c, "", {})
            /\ game' = game
       ELSE IF exc[c]
       THEN \* except websockets.ConnectionClosed: pass; finally
            Finally(c, "abort")
       ELSE IF pc[c] = "welcome"
       THEN \* line 304: await game.broadcast(joined)
            /\ pc' = [pc EXCEPT ![c] = "joincast"]
            /\ wait' = [wait EXCEPT ![c] = Outstanding(game)]
            /\ exc' = [exc EXCEPT ![c] = Raises(game)]
            /\ ev' = Ev("joincast", c, "joined", Delivered(game))
            /\ UNCHANGED <<game, net>>
       ELSE \* line 306: async for raw in ws
            /\ pc' = [pc EXCEPT ![c] = "loop"]
            /\ ev' = Ev("listen", c, "", {})
            /\ UNCHANGED <<game, net, wait, exc>>
    /\ Sync
    /\ UNCHANGED <<now, snap, loop_pc, nconn, left>>
    /\ UNCHANGED tvars

(***************************************************************************)
(* The messages a joined client sends (lines 306-317).                     *)
(***************************************************************************)
Input(l, r, s, k, ax) ==
    [up |-> 0, down |-> 0, left |-> l, right |-> r, sprint |-> s, kick |-> k,
     aimx |-> ax, aimy |-> 0]

InLeft == Input(1, 0, FALSE, FALSE, 1000)

InSprintRight == Input(0, 1, TRUE, FALSE, 1000)

InKickRight == Input(0, 0, FALSE, TRUE, 1000)

InKickLeft == Input(0, 0, FALSE, TRUE, 0 - 1000)

\* {"right": NaN}: json.loads accepts the literal NaN
InNaNRight == Input(0, NaN, FALSE, FALSE, 1000)

Inputs == {InLeft, InSprintRight, InKickRight, InKickLeft, InNaNRight}

\* lines 311-315: an input message is applied on receipt
RecvInput(c, inp) ==
    /\ Alive
    /\ pc[c] = "loop" /\ net[c] # "closed" /\ left.msgs > 0
    /\ IndexOf(game, c) # 0
    /\ game' = handle_input(game, IndexOf(game, c), inp, now)
    /\ left' = [left EXCEPT !.msgs = @ - 1]
    /\ ev' = Ev("input", c, "", {})
    /\ hist' = [hist EXCEPT !.ins = Append(@, <<c, inp>>)]
    /\ UNCHANGED <<now, snap, net, pc, loop_pc, wait, exc, nconn>>
    /\ UNCHANGED tvars

\* lines 316-317: await ws.send(pong)
RecvPing(c) ==
    /\ Alive
    /\ pc[c] = "loop" /\ net[c] # "closed" /\ left.ctl > 0
    /\ left' = [left EXCEPT !.ctl = @ - 1]
    /\ pc' = [pc EXCEPT ![c] = "pong"]
    /\ wait' = [wait EXCEPT ![c] = IF net[c] = "stalled" THEN {c} ELSE {}]
    /\ ev' = Ev("ping", c, "pong", IF net[c] = "open" THEN {c} ELSE {})
    /\ UNCHANGED <<game, now, snap, net, loop_pc, exc, nconn, hist>>
    /\ UNCHANGED tvars

\* lines 307-310: a text that is no JSON is skipped
RecvGarbage(c) ==
    /\ Alive
    /\ pc[c] = "loop" /\ net[c] # "closed" /\ left.ctl > 0
    /\ left' = [left EXCEPT !.ctl = @ - 1]
    /\ ev' = Ev("garbage", c, "", {})
    /\ UNCHANGED <<game, now, snap, net, pc, loop_pc, wait, exc, nconn, hist>>
    /\ UNCHANGED tvars

\* a JSON text that is no object (data.get raises, line 311), or an input
\* whose data is no object or whose aimx is no number (lines 213-220 raise
\* before anything is assigned): the exception leaves the handler through
\* finally
RecvMalformed(c) ==
    /\ Alive
    /\ pc[c] = "loop" /\ net[c] # "closed" /\ left.ctl > 0
    /\ left' = [left EXCEPT !.ctl = @ - 1]
    /\ Finally(c, "malformed")
    /\ Sync
    /\ UNCHANGED <<now, snap, loop_pc, nconn>>
    /\ UNCHANGED tvars

\* the iteration over ws ends or raises ConnectionClosed (lines 306, 318)
HandlerClosed(c) ==
    /\ Alive
    /\ pc[c] = "loop" /\ net[c] = "closed"
    /\ Finally(c, "closed")
    /\ Sync
    /\ UNCHANGED <<now, snap, loop_pc, nconn, left>>
    /\ UNCHANGED tvars

(***************************************************************************)
(* The peers and the network.                                              *)
(***************************************************************************)
Live(c) == pc[c] \notin {"idle", "done"} /\ net[c] # "closed"

\* the connection of c closes: every send to it that is outstanding raises
PeerClose(c) ==
    /\ Alive
    /\ Live(c) /\ left.faults > 0
    /\ left' = [left EXCEPT !.faults = @ - 1]
    /\ net' = [net EXCEPT ![c] = "closed"]
    /\ wait' = [t \in Tasks |-> wait[t] \ {c}]
    /\ exc' = [t \in Tasks |-> exc[t] \/ c \in wait[t]]
    /\ ev' = Ev("peer_close", c, "", {})
    /\ UNCHANGED <<game, now, snap, pc, loop_pc, nconn, hist>>
    /\ UNCHANGED tvars

\* the peer stops reading and the write buffer fills up
PeerStall(c) ==
    /\ Alive
    /\ Live(c) /\ net[c] = "open" /\ left.faults > 0
    /\ left' = [left EXCEPT !.faults = @ - 1]
    /\ net' = [net EXCEPT ![c] = "stalled"]
    /\ ev' = Ev("peer_stall", c, "", {})
    /\ UNCHANGED <<game, now, snap, pc, loop_pc, wait, exc, nconn, hist>>
    /\ UNCHANGED tvars

\* the peer reads again: the sends outstanding to it complete
PeerResume(c) ==
    /\ Alive
    /\ Live(c) /\ net[c] = "stalled"
    /\ net' = [net EXCEPT ![c] = "open"]
    /\ wait' = [t \in Tasks |-> wait[t] \ {c}]
    /\ ev' = Ev("peer_resume", c, "pending",
                IF \E t \in Tasks : c \in wait[t] THEN {c} ELSE {})
    /\ UNCHANGED <<game, now, snap, pc, loop_pc, exc, nconn, left, hist>>
    /\ UNCHANGED tvars

(***************************************************************************)
(* game_loop (lines 329-356).                                              *)
(***************************************************************************)
\* lines 339-341
TickPlayers(g) ==
    [g EXCEPT !.players =
       [i \in 1..Len(g.players) |->
          physics_player([g.players[i] EXCEPT
                            !.cooldown = IF @ > 0 THEN @ - DT ELSE @])]]

\* lines 350-352
RoundReset(g, jit, t) ==
    reset_positions([g EXCEPT !.score_red = 0, !.score_blue = 0,
                              !.round_end_ts = t + ROUND_SECONDS],
                    jit, FALSE, t)

\* the team that scores in the tick of g1, -1 when none does
Scorer(g1, t) ==
    LET g2 == physics_ball(g1, NoJitter(Len(g1.players)), t)
    IN  IF g2.score_red # g1.score_red THEN TEAM_RED
        ELSE IF g2.score_blue # g1.score_blue THEN TEAM_BLUE
        ELSE 0 - 1

\* the offsets random.uniform may return in a tick: drawn only on a reset
Draws(g, needed) ==
    IF needed THEN JitterSeqs(Len(g.players))
    ELSE {NoJitter(Len(g.players))}

TickEv(g, msg, goal, over) ==
    [Ev("tick", LOOP, msg, Delivered(g)) EXCEPT !.goal = goal, !.over = over,
                                                !.ins = hist.ins]

\* the sleep ends (line 334); lines 335-356 up to the next await
Tick ==
    /\ Alive
    /\ loop_pc = "sleep" /\ left.ticks > 0
    /\ left' = [left EXCEPT !.ticks = @ - 1]
    /\ now' = now + DT
    /\ LET t == now + DT
           g1 == TickPlayers(game)
           goal == Scorer(g1, t)
       IN  \E jit \in Draws(g1, goal # 0 - 1) :
           LET g2 == physics_ball(g1, jit, t)
               over == round_over(g2, t)
           IN  IF over /\ g2.sockets # {}
               THEN \* line 348: await game.broadcast(winner_text)
                    /\ game' = g2
                    /\ snap' = snap
                    /\ loop_pc' = "winner"
                    /\ wait' = [wait EXCEPT ![LOOP] = Outstanding(g2)]
                    /\ exc' = [exc EXCEPT ![LOOP] = Raises(g2)]
                    /\ ev' = TickEv(g2, winner_text(g2), goal, TRUE)
               ELSE \* broadcast returns at once when there is no socket
                    \E jit2 \in Draws(g2, over) :
                    LET g3 == IF over THEN RoundReset(g2, jit2, t) ELSE g2
                    IN  /\ game' = g3
                        /\ snap' = snapshot(g3, t)
                        /\ loop_pc' = IF g3.sockets = {} THEN "sleep"
                                      ELSE "state"
                        /\ wait' = [wait EXCEPT ![LOOP] = Outstanding(g3)]
                        /\ exc' = [exc EXCEPT ![LOOP] = Raises(g3)]
                        /\ ev' = TickEv(g3, "state", goal, over)
    /\ hist' = [base |-> game', ins |-> << >>]
    /\ UNCHANGED <<net, pc, nconn>>
    /\ UNCHANGED tvars

\* the await of game_loop ends: with the sends complete, or with the
\* ConnectionClosed one of them raised, which nothing in game_loop catches
LoopResume ==
    /\ Alive
    /\ loop_pc \in {"winner", "state"}
    /\ exc[LOOP] \/ wait[LOOP] = {}
    /\ IF exc[LOOP]
       THEN /\ loop_pc' = "crashed"
            /\ ev' = Ev("crash", LOOP, "", {})
            /\ UNCHANGED <<game, snap, wait, exc>>
       ELSE IF loop_pc = "winner"
       THEN \* lines 350-356
            \E jit \in Draws(game, TRUE) :
            LET g3 == RoundReset(game, jit, now)
            IN  /\ game' = g3
                /\ snap' = snapshot(g3, now)
                /\ loop_pc' = IF g3.sockets = {} THEN "sleep" ELSE "state"
                /\ wait' = [wait EXCEPT ![LOOP] = Outstanding(g3)]
                /\ exc' = [exc EXCEPT ![LOOP] = Raises(g3)]
                /\ ev' = [Ev("reset", LOOP, "state", Delivered(g3))
                            EXCEPT !.over = TRUE]
       ELSE /\ loop_pc' = "sleep"
            /\ ev' = Ev("sleep", LOOP, "", {})
            /\ UNCHANGED <<game, snap, wait, exc>>
    /\ Sync
    /\ UNCHANGED <<now, net, pc, nconn, left>>
    /\ UNCHANGED tvars

\* the connections of the tic-tac-toe server
TConns == 1..(2 + MaxJoins)

TLeft(j, m, a, d) == [joins |-> j, moves |-> m, asks |-> a, drops |-> d]

\* the room is not in use
TIdle == [room |-> Room, left |-> TLeft(0, 0, 0, 0)]

(***************************************************************************)
(* The initial states: the server after construction, and states of a      *)
(* match in progress that play reaches (players that have walked to a      *)
(* place, a ball that has come to rest or is being pushed).  In a match in *)
(* progress the connections 1..k are the joined players, suspended in      *)
(* their receive loop, and game_loop sleeps.  Every scene says how many    *)
(* steps of each bounded kind the run may take from it.                    *)
(***************************************************************************)
Left(c, t, m, k, f) ==
    [conns |-> c, ticks |-> t, msgs |-> m, ctl |-> k, faults |-> f]

Scene(ps, ball, red, blue, deadline, lf) ==
    [game |-> [players |-> ps, sockets |-> 1..Len(ps), ball |-> ball,
               score_red |-> red, score_blue |-> blue,
               round_end_ts |-> deadline,
               last_event |-> "", last_event_t |-> 0],
     left |-> lf]

\* after construction: no connection yet
Construction == Scene(<< >>, Game(0).ball, 0, 0, Game(0).round_end_ts,
                      Left(MaxConns, 1, 0, 0, 1))

\* everybody has left, and the ball has come to rest 20 right of the place
\* where a Red player joins
SpawnScene ==
    Scene(<< >>, Ball(FIELD_W \div 4 + 20 * Scale, FIELD_H \div 2), 0, 0,
          ROUND_SECONDS, Left(1, 1, 0, 0, 0))

\* four players had joined, and the two Blue ones have left; the round ends
\* with the next tick
RedPair ==
    Scene(<<Player(1, TEAM_RED, FIELD_W \div 4, FIELD_H \div 2),
            Player(2, TEAM_RED, FIELD_W \div 4, FIELD_H \div 2)>>,
          Game(0).ball, 0, 0, DT, Left(1, 1, 0, 0, 1))

\* two players have joined and none has moved
Lobby ==
    Scene(<<Player(1, TEAM_RED, FIELD_W \div 4, FIELD_H \div 2),
            Player(2, TEAM_BLUE, (FIELD_W * 3) \div 4, FIELD_H \div 2)>>,
          Game(0).ball, 0, 0, ROUND_SECONDS,
          Left(0, MaxTicks, 0, MaxCtl, MaxFaults))

\* four players have joined and none has moved
FullRoom ==
    Scene(<<Player(1, TEAM_RED, FIELD_W \div 4, FIELD_H \div 2),
            Player(2, TEAM_BLUE, (FIELD_W * 3) \div 4, FIELD_H \div 2),
            Player(3, TEAM_RED, FIELD_W \div 4, FIELD_H \div 2),
            Player(4, TEAM_BLUE, (FIELD_W * 3) \div 4, FIELD_H \div 2)>>,
          Game(0).ball, 0, 0, ROUND_SECONDS,
          Left(MaxConns, 0, 0, 0, 1))

\* one player 35 left of the resting ball: in kick range, not in contact
KickScene ==
    Scene(<<Player(1, TEAM_RED, 565 * Scale, 350 * Scale)>>,
          Ball(600 * Scale, 350 * Scale), 0, 0, ROUND_SECONDS,
          Left(0, MaxTicks, MaxMsgs, 0, 0))

\* KickScene 17 ticks after a kick of the player that was out of range and
\* missed (line 256 starts the cooldown all the same), the player having
\* stepped into range since: what is left of the cooldown is KICK_COOLDOWN
\* less 17 ticks.  (In the program 0.6 - 18 * DT is 9.7e-17, above zero, as
\* KICK_COOLDOWN - 18 * DT is here.)
CooldownScene ==
    Scene(<<[Player(1, TEAM_RED, 565 * Scale, 350 * Scale)
               EXCEPT !.cooldown = KICK_COOLDOWN - 17 * DT]>>,
          Ball(600 * Scale, 350 * Scale),
          0, 0, ROUND_SECONDS, Left(0, MaxTicks, MaxMsgs, 0, 0))

\* a player who has sprinted until the stamina was 0 and has sent one input
\* without sprint since: the stamina is one step of STAMINA_REGEN
TiredScene ==
    Scene(<<[Player(1, TEAM_RED, FIELD_W \div 4, FIELD_H \div 2)
               EXCEPT !.stamina = TimesDt(STAMINA_REGEN)]>>,
          Game(0).ball, 0, 0, ROUND_SECONDS,
          Left(0, MaxTicks, MaxMsgs, 0, 0))

\* a player who holds "left" walks from (200, 100) into the ball that rests
\* against the left wall at (14, 100): the state after 86 ticks
Pusher ==
    [Player(1, TEAM_RED, 2340, 100 * Scale) EXCEPT !.vx = 0 - 6552]

WallScene ==
    Scene(<<Pusher>>, [Ball(44, 100 * Scale) EXCEPT !.vx = 0 - 8190],
          0, 0, 2 * DT, Left(0, MaxTicks, MaxMsgs, 0, 0))

\* the ball at rest in front of the left goal, a player behind it
GoalLeftScene ==
    Scene(<<Player(1, TEAM_RED, 62 * Scale, 350 * Scale),
            Player(2, TEAM_BLUE, 900 * Scale, 350 * Scale)>>,
          Ball(30 * Scale, 350 * Scale), 0, 0, ROUND_SECONDS,
          Left(0, MaxTicks, MaxMsgs, 0, 0))

\* the ball at rest in front of the right goal, a player behind it, Red one
\* goal short of the win
GoalRightScene ==
    Scene(<<Player(1, TEAM_RED, 1138 * Scale, 350 * Scale),
            Player(2, TEAM_BLUE, 900 * Scale, 350 * Scale)>>,
          Ball(1170 * Scale, 350 * Scale), WIN_GOALS - 1, 0, ROUND_SECONDS,
          Left(0, MaxTicks, MaxMsgs, 0, 0))

Scenes == {Construction, SpawnScene, RedPair, Lobby, FullRoom, KickScene,
           CooldownScene, TiredScene, WallScene, GoalLeftScene,
           GoalRightScene}

\* the soccer server in scene sc
SceneInit(sc) ==
    LET k == Len(sc.game.players)
    IN  /\ game = sc.game
        /\ now = 0
        /\ snap = IF k = 0 THEN NoSnap ELSE snapshot(sc.game, 0)
        /\ net = [c \in Conns |-> IF c <= k THEN "open" ELSE "closed"]
        /\ pc = [c \in Conns |-> IF c <= k THEN "loop" ELSE "idle"]
        /\ loop_pc = "sleep"
        /\ wait = [t \in Tasks |-> {}]
        /\ exc = [t \in Tasks |-> FALSE]
        /\ nconn = k
        /\ left = sc.left
        /\ ev = Ev("init", LOOP, "", {})
        /\ hist = [base |-> sc.game, ins |-> << >>]

\* the tic-tac-toe server in scene sc: the connections of role_by_ws are in
\* their message loop
TSceneInit(sc) ==
    /\ room = sc.room
    /\ tnet = [c \in TConns |->
                 IF c \in DOMAIN sc.room.role_by_ws THEN "open" ELSE "closed"]
    /\ tpc = [c \in TConns |->
                IF c \in DOMAIN sc.room.role_by_ws THEN "loop" ELSE "idle"]
    /\ tleft = sc.left
    /\ tev = [op |-> "init", c |-> 0, code |-> "", started |-> FALSE,
              asked |-> {},
              base |-> sc.room.scores["X"] + sc.room.scores["O"]]

\* the soccer server runs, the tic-tac-toe server is not started
Init ==
    /\ \E sc \in Scenes : SceneInit(sc)
    /\ TSceneInit(TIdle)

Next ==
    \/ Connect
    \/ \E c \in Conns, m \in JoinMsgs : Handshake(c, m)
    \/ \E c \in Conns : HandshakeClosed(c)
    \/ \E c \in Conns : HandlerResume(c)
    \/ \E c \in Conns, inp \in Inputs : RecvInput(c, inp)
    \/ \E c \in Conns : RecvPing(c)
    \/ \E c \in Conns : RecvGarbage(c)
    \/ \E c \in Conns : RecvMalformed(c)
    \/ \E c \in Conns : HandlerClosed(c)
    \/ \E c \in Conns : PeerClose(c)
    \/ \E c \in Conns : PeerStall(c)
    \/ \E c \in Conns : PeerResume(c)
    \/ Tick
    \/ LoopResume

Spec == Init /\ [][Next]_vars

\* The event loop runs every task that is ready (the handlers after an await
\* or a close, game_loop after its sends), and a peer that has stopped
\* reading reads again or is closed by the keepalive.
FairSpec ==
    /\ Spec
    /\ WF_vars(LoopResume)
    /\ WF_vars(\E c \in Conns : HandlerResume(c))
    /\ WF_vars(\E c \in Conns : HandlerClosed(c))
    /\ WF_vars(\E c \in Conns : HandshakeClosed(c))
    /\ WF_vars(\E c \in Conns : PeerResume(c))

(***************************************************************************)
(* handler of the tic-tac-toe server (lines 213-349).  The sends of a      *)
(* handler to its own connection and the broadcasts (which gather with     *)
(* return_exceptions, line 28) come after the last change of the room in   *)
(* their branch; the send of the restart offer to the other player (line   *)
(* 310) comes between two changes and is a step boundary.                  *)
(***************************************************************************)
\* the connections that have asked for a restart since the game began
Asked == IF tev.started THEN {} ELSE tev.asked

TEv(op, c, code) ==
    [op |-> op, c |-> c, code |-> code, started |-> FALSE, asked |-> Asked,
     base |-> tev.base]

\* a step that has called start_new_game
TEvStarted(op, c, code, askers) ==
    [op |-> op, c |-> c, code |-> code, started |-> TRUE, asked |-> askers,
     base |-> room'.scores["X"] + room'.scores["O"]]

\* websockets.serve starts handler, which takes a role at once (line 215)
TConnect(c) ==
    /\ tpc[c] = "idle" /\ tleft.joins > 0
    /\ \A d \in TConns : d < c => tpc[d] # "idle"
    /\ tleft' = [tleft EXCEPT !.joins = @ - 1]
    /\ room' = assign_role(room, c)
    /\ tpc' = [tpc EXCEPT ![c] = "loop"]
    /\ tnet' = [tnet EXCEPT ![c] = "open"]
    /\ tev' = TEv("connect", c, RoleOf(room', c))
    /\ UNCHANGED svars

\* the values <<row, col>> of the move messages: every square, places off
\* the board on either side, and a row that is no integer
Targets == Cells \cup {<<0 - 1, 0>>, <<0, BOARD_SIZE>>, <<NoInt, 0>>}

\* lines 263-285
TMove(c, row, col) ==
    /\ tpc[c] = "loop" /\ tnet[c] = "open" /\ tleft.moves > 0
    /\ LET role == RoleOf(room, c)
       IN  IF role \notin {"X", "O"}
           THEN /\ room' = room
                /\ tev' = TEv("move", c, "not_player")
           ELSE IF row = NoInt \/ col = NoInt
           THEN /\ room' = room
                /\ tev' = TEv("move", c, "bad_coords")
           ELSE LET result == play(room.game, row, col, role)
                    r1 == [room EXCEPT !.game = result.game]
                IN  /\ room' = IF result.type = "game_over"
                               THEN record_game_over(r1, result.code)
                               ELSE r1
                    /\ tev' = TEv("move", c,
                                  IF result.type = "error" THEN result.code
                                  ELSE result.type)
    /\ tleft' = IF room' = room THEN tleft
                ELSE [tleft EXCEPT !.moves = @ - 1]
    /\ UNCHANGED <<tnet, tpc>>
    /\ UNCHANGED svars

\* lines 288-298
TResign(c) ==
    /\ tpc[c] = "loop" /\ tnet[c] = "open" /\ tleft.asks > 0
    /\ tleft' = [tleft EXCEPT !.asks = @ - 1]
    /\ LET role == RoleOf(room, c)
       IN  IF role \notin {"X", "O"}
           THEN /\ room' = room
                /\ tev' = TEv("resign", c, "not_player")
           ELSE /\ room' = record_game_over(
                              [room EXCEPT !.game.winner = opponent_mark(role)],
                              opponent_mark(role))
                /\ tev' = TEv("resign", c, "game_over")
    /\ UNCHANGED <<tnet, tpc>>
    /\ UNCHANGED svars

\* lines 312, 332: the other mark has asked too, or the game is decided
Agreed(r, role) ==
    opponent_mark(role) \in r.awaiting_restart_from \/ r.game.winner # "None"

\* lines 312-323, 332-341 for the handler of connection c
Decide(c, op) ==
    IF Agreed(room, RoleOf(room, c))
    THEN /\ room' = start_new_game(room)
         /\ tev' = TEvStarted(op, c, "new_game", Asked \cup {c})
    ELSE /\ room' = room
         /\ tev' = [TEv(op, c, "waiting") EXCEPT !.asked = Asked \cup {c}]

\* lines 301-310: the request is noted and the offer sent to the other
\* player; with nobody in the other seat lines 312-323 follow at once, and a
\* send to a closed connection raises and ends the handler through finally
TRestartRequest(c) ==
    /\ tpc[c] = "loop" /\ tnet[c] = "open" /\ tleft.asks > 0
    /\ tleft' = [tleft EXCEPT !.asks = @ - 1]
    /\ LET role == RoleOf(room, c)
           r1 == [room EXCEPT !.awaiting_restart_from = @ \cup {role}]
           other_ws == ws_for_mark(room, opponent_mark(role))
       IN  IF role \notin {"X", "O"}
           THEN /\ room' = room
                /\ tev' = TEv("restart_request", c, "not_player")
                /\ UNCHANGED tpc
           ELSE IF other_ws = 0
           THEN /\ IF Agreed(r1, role)
                   THEN /\ room' = start_new_game(r1)
                        /\ tev' = TEvStarted("restart_request", c, "new_game",
                                             Asked \cup {c})
                   ELSE /\ room' = r1
                        /\ tev' = [TEv("restart_request", c, "waiting")
                                     EXCEPT !.asked = Asked \cup {c}]
                /\ UNCHANGED tpc
           ELSE IF tnet[other_ws] = "closed"
           THEN /\ room' = drop_ws(r1, c)
                /\ tpc' = [tpc EXCEPT ![c] = "done"]
                /\ tev' = [TEv("restart_request", c, "raised")
                             EXCEPT !.asked = Asked \cup {c}]
           ELSE /\ room' = r1
                /\ tpc' = [tpc EXCEPT ![c] = "offer"]
                /\ tev' = [TEv("restart_request", c, "offer")
                             EXCEPT !.asked = Asked \cup {c}]
    /\ UNCHANGED tnet
    /\ UNCHANGED svars

\* the send of line 310 has completed: lines 312-323
TOfferSent(c) ==
    /\ tpc[c] = "offer"
    /\ Decide(c, "offer_sent")
    /\ tpc' = [tpc EXCEPT ![c] = "loop"]
    /\ UNCHANGED <<tnet, tleft>>
    /\ UNCHANGED svars

\* lines 327-342
TRestartAccept(c) ==
    /\ tpc[c] = "loop" /\ tnet[c] = "open" /\ tleft.asks > 0
    /\ tleft' = [tleft EXCEPT !.asks = @ - 1]
    /\ LET role == RoleOf(room, c)
           r1 == [room EXCEPT !.awaiting_restart_from = @ \cup {role}]
       IN  IF role \notin {"X", "O"}
           THEN /\ room' = room
                /\ tev' = TEv("restart_accept", c, "")
           ELSE IF Agreed(r1, role)
           THEN /\ room' = start_new_game(r1)
                /\ tev' = TEvStarted("restart_accept", c, "new_game",
                                     Asked \cup {c})
           ELSE /\ room' = r1
                /\ tev' = [TEv("restart_accept", c, "waiting")
                             EXCEPT !.asked = Asked \cup {c}]
    /\ UNCHANGED <<tnet, tpc>>
    /\ UNCHANGED svars

\* the peer closes the connection
TPeerClose(c) ==
    /\ tpc[c] \in {"loop", "offer"} /\ tnet[c] = "open" /\ tleft.drops > 0
    /\ tleft' = [tleft EXCEPT !.drops = @ - 1]
    /\ tnet' = [tnet EXCEPT ![c] = "closed"]
    /\ tev' = TEv("peer_close", c, "")
    /\ UNCHANGED <<room, tpc>>
    /\ UNCHANGED svars

\* the iteration over ws ends: finally (lines 346-349)
TDrop(c) ==
    /\ tpc[c] = "loop" /\ tnet[c] = "closed"
    /\ room' = drop_ws(room, c)
    /\ tpc' = [tpc EXCEPT ![c] = "done"]
    /\ tev' = TEv("drop", c, "")
    /\ UNCHANGED <<tnet, tleft>>
    /\ UNCHANGED svars

(***************************************************************************)
(* The initial states of the tic-tac-toe server: the room after            *)
(* construction, and the room with both seats taken before the first move. *)
(***************************************************************************)
\* after construction: no connection yet
TConstruction ==
    [room |-> Room, left |-> TLeft(2 + MaxJoins, 1, 1, 1)]

\* two connections have taken the seats X and O
Seated == assign_role(assign_role(Room, 1), 2)

\* both seated, and a game played to its end, with nothing but moves
TGame == [room |-> Seated, left |-> TLeft(0, BOARD_SIZE * BOARD_SIZE, 0, 0)]

\* both seated: a session with requests, resignations, leaves and joins
TMatch ==
    [room |-> Seated, left |-> TLeft(MaxJoins, 0, MaxAsks, MaxDrops)]

\* both seated: some moves, and requests and resignations between them
TPlay == [room |-> Seated, left |-> TLeft(0, MaxMoves, MaxAsks, 0)]

TScenes == {TConstruction, TGame, TMatch, TPlay}

\* the tic-tac-toe server runs, the soccer server is as constructed and not
\* started
TttInit ==
    /\ SceneInit([Construction EXCEPT !.left = Left(0, 0, 0, 0, 0)])
    /\ \E sc \in TScenes : TSceneInit(sc)

TttNext ==
    \/ \E c \in TConns : TConnect(c)
    \/ \E c \in TConns, rc \in Targets : TMove(c, rc[1], rc[2])
    \/ \E c \in TConns : TResign(c)
    \/ \E c \in TConns : TRestartRequest(c)
    \/ \E c \in TConns : TOfferSent(c)
    \/ \E c \in TConns : TRestartAccept(c)
    \/ \E c \in TConns : TPeerClose(c)
    \/ \E c \in TConns : TDrop(c)

TttSpec == TttInit /\ [][TttNext]_vars

(***************************************************************************)
(* Properties.                                                             *)
(***************************************************************************)
\* a <= b as the floats compare: false when either is NaN
Leq(a, b) == ~IsNaN(a) /\ ~IsNaN(b) /\ a <= b

\* the game after only the latest input of every player, of the inputs
\* ins[i..], has been applied to g
RECURSIVE Coalesce(_, _, _, _)
Coalesce(g, ins, i, t) ==
    IF i > Len(ins) THEN g
    ELSE IF \E j \in (i + 1)..Len(ins) : ins[j][1] = ins[i][1]
    THEN Coalesce(g, ins, i + 1, t)
    ELSE Coalesce(handle_input(g, IndexOf(g, ins[i][1]), ins[i][2], t),
                  ins, i + 1, t)

\* the simulated fields: position, velocity, stamina and cooldown of every
\* player, the ball, the score and the round deadline
Simulated(g) ==
    [players |-> [i \in 1..Len(g.players) |->
                    <<g.players[i].x, g.players[i].y, g.players[i].vx,
                      g.players[i].vy, g.players[i].stamina,
                      g.players[i].cooldown>>],
     ball |-> g.ball,
     score |-> <<g.score_red, g.score_blue>>,
     deadline |-> g.round_end_ts]

\* C1 (input coalescing): of the inputs a player sends between two ticks
\* only the latest has an effect; the velocity, stamina and cooldown of the
\* players and the ball are what the latest input of each player alone makes
\* of the state the interval began with.
InputCoalescing ==
    Simulated(game) = Simulated(Coalesce(hist.base, hist.ins, 1, now))

\* C2 (single writer): the receipt of an input message changes no simulated
\* field of a player, of the ball, the score or the timer; only game_loop
\* writes them.
SingleWriter ==
    [][ev'.op = "input" => Simulated(game') = Simulated(game)]_vars

\* C3 (scheduler survives connection failure): no failure of a connection
\* ends game_loop.
SchedulerSurvives == loop_pc # "crashed"

\* C4 (broadcast failure isolation): when a send of a broadcast fails, the
\* sends of that broadcast to the other sockets are not given up: game_loop
\* is not ended by the failure while a send of its broadcast is outstanding.
BroadcastIsolation == loop_pc = "crashed" => wait[LOOP] = {}

\* C5 (no tick waits on a connection): game_loop is never suspended on a
\* send that has not completed; with a send outstanding it is back in its
\* sleep, from where the next tick starts.
NoTickWaits ==
    loop_pc \in {"winner", "state"} => (exc[LOOP] \/ wait[LOOP] = {})

\* C6 (ball containment): at the end of every tick the centre of the ball
\* lies in [0, FIELD_W] x [0, FIELD_H].
BallContained ==
    /\ Leq(0, game.ball.x) /\ Leq(game.ball.x, FIELD_W)
    /\ Leq(0, game.ball.y) /\ Leq(game.ball.y, FIELD_H)

\* C7 (player containment): every player's position satisfies
\* PLAYER_R <= x <= FIELD_W - PLAYER_R and PLAYER_R <= y <= FIELD_H -
\* PLAYER_R, whatever the inputs.
PlayerContained ==
    \A i \in 1..Len(game.players) :
       /\ Leq(PLAYER_R, game.players[i].x)
       /\ Leq(game.players[i].x, FIELD_W - PLAYER_R)
       /\ Leq(PLAYER_R, game.players[i].y)
       /\ Leq(game.players[i].y, FIELD_H - PLAYER_R)

\* C8 (room capacity): a join received while the room holds MAX_PLAYERS
\* players is answered with a reject and leaves the game as it is, and the
\* number of players never exceeds MAX_PLAYERS.
RoomCapacity ==
    [][/\ Len(game'.players) <= MAX_PLAYERS
       /\ (/\ ev'.op \in {"join", "full"}
           /\ Len(game.players) >= MAX_PLAYERS)
          => /\ ev'.op = "full" /\ ev'.msg = "reject"
             /\ game' = game
             /\ net[ev'.c] = "open" => ev'.c \in ev'.to]_vars

\* a join has just been rejected by the full room, and the reject delivered
RoomCapacityWitness ==
    /\ ev.op = "full" /\ ev.msg = "reject" /\ ev.c \in ev.to
    /\ Len(game.players) = MAX_PLAYERS

\* the ball of g, moved by its velocity in the next tick, is over the left
\* (right) boundary with its y strictly inside the goal opening
CrossesLeft(g) ==
    LET b == BallMove(g.ball)
    IN  Lt(Sub(b.x, BALL_R), 0) /\ Lt(goal_top, b.y) /\ Lt(b.y, goal_bottom)

CrossesRight(g) ==
    LET b == BallMove(g.ball)
    IN  Gt(Add(b.x, BALL_R), FIELD_W) /\ Lt(goal_top, b.y)
        /\ Lt(b.y, goal_bottom)

\* the kickoff layout: the ball at rest in the centre, every player at rest
\* at the slot of its team, up to the offset of at most 20 drawn for it
AtKickoff(g) ==
    /\ g.ball = Ball(FIELD_W \div 2, FIELD_H \div 2)
    /\ \A i \in 1..Len(g.players) :
          /\ g.players[i].vx = 0 /\ g.players[i].vy = 0
          /\ Abs(g.players[i].x - SlotOf(g.players, i)[1]) <= 20 * Scale
          /\ Abs(g.players[i].y - SlotOf(g.players, i)[2]) <= 20 * Scale

\* C9 (goal attribution): a tick in which the ball crosses the left
\* boundary inside the goal opening adds one to Blue's score and nothing to
\* Red's, and leaves the ball in the centre and the players at their kickoff
\* slots, all at rest; a crossing of the right boundary does the same for
\* Red.  (When that tick also ends the round and nobody is connected, the
\* round reset of the same tick has cleared both scores.)
GoalAttribution ==
    [][(ev'.op = "tick" /\ (CrossesLeft(game) \/ CrossesRight(game)))
       => LET blue == IF CrossesLeft(game) THEN 1 ELSE 0
          IN  /\ ev'.goal = IF blue = 1 THEN TEAM_BLUE ELSE TEAM_RED
              /\ AtKickoff(game')
              /\ IF ev'.over /\ loop_pc' # "winner"
                 THEN game'.score_red = 0 /\ game'.score_blue = 0
                 ELSE /\ game'.score_blue = game.score_blue + blue
                      /\ game'.score_red = game.score_red + (1 - blue)]_vars

\* the tick just taken scored for Blue: 0:1, kickoff layout
GoalAttributionWitness ==
    /\ ev.op = "tick" /\ ev.goal = TEAM_BLUE
    /\ game.score_blue = 1 /\ game.score_red = 0
    /\ AtKickoff(game) /\ Len(game.players) = 2

\* player c of g has cooldown 0 and is within kick range of the ball, which
\* is at rest
Qualifies(g, c) ==
    LET q == g.players[IndexOf(g, c)]
        dx == Sub(g.ball.x, q.x)
        dy == Sub(g.ball.y, q.y)
    IN  /\ q.cooldown = 0
        /\ g.ball.vx = 0 /\ g.ball.vy = 0
        /\ Within(dx, dy, KickRange + 1)
        /\ dx * dx + dy * dy <= KickRange * KickRange

\* in the next tick of g the ball meets no wall, no goal and no player
FreeFlight(g) ==
    LET b == BallMove(g.ball)
        ps == TickPlayers(g).players
    IN  /\ Leq(BALL_R, b.x) /\ Leq(b.x, FIELD_W - BALL_R)
        /\ Leq(BALL_R, b.y) /\ Leq(b.y, FIELD_H - BALL_R)
        /\ \A i \in 1..Len(ps) :
              ~Within(Sub(b.x, ps[i].x), Sub(b.y, ps[i].y), BALL_R + PLAYER_R)

\* since the last tick the only input was a kick with aimx = 1, aimy = 0 of
\* a player who qualified, and the tick taken now neither ends the round nor
\* lets the ball meet anything
KickThenTick ==
    /\ ev'.op = "tick" /\ ~ev'.over
    /\ Len(hist.ins) = 1 /\ hist.ins[1][2] = InKickRight
    /\ Qualifies(hist.base, hist.ins[1][1])
    /\ FreeFlight(game)

\* C10 (kick end-to-end): after such a kick the next snapshot shows the
\* ball's vx as KICK_IMPULSE after one tick of friction (531.9) and the
\* kicker's cooldown as KICK_COOLDOWN less one tick (0.57).
KickEndToEnd ==
    [][KickThenTick
       => /\ snap'.ball.vx = RoundQ(MulQ(KICK_IMPULSE, BALL_FRICTION, 1000), 1)
          /\ snap'.players[IndexOf(game, hist.ins[1][1])].cooldown
                = RoundQ(KICK_COOLDOWN - DT, 10)]_vars

\* the snapshot of the tick after the kick of player 1: the ball 18 further
\* right, at 531.9, the cooldown at 0.57
KickEndToEndWitness ==
    /\ ev.op = "tick" /\ ev.ins = <<<<1, InKickRight>>>>
    /\ snap.ball.x = 618 * Scale /\ snap.ball.vx = 53190
    /\ snap.players[1].cooldown = 57

\* C10 as stated: the next snapshot shows the ball's vx as KICK_IMPULSE and
\* the kicker's cooldown as the full KICK_COOLDOWN.
KickEndToEndAsStated ==
    [][KickThenTick
       => /\ snap'.ball.vx = KICK_IMPULSE
          /\ snap'.players[IndexOf(game, hist.ins[1][1])].cooldown
                = RoundQ(KICK_COOLDOWN, 10)]_vars

\* C11 (round termination): a tick before the deadline that scores no goal,
\* with both scores below WIN_GOALS, does not end the round and leaves the
\* scores and the deadline alone; a tick at or after the deadline ends it; and
\* the iteration of game_loop that ended the round, once it is past the
\* winner toast, has both scores at zero, the deadline ROUND_SECONDS ahead
\* and the kickoff layout, so that the snapshot it builds shows a round that
\* is not over.
RoundTermination ==
    [][/\ (/\ ev'.op = "tick" /\ ev'.goal = 0 - 1
           /\ now' < game.round_end_ts
           /\ game.score_red < WIN_GOALS /\ game.score_blue < WIN_GOALS)
          => /\ ~ev'.over
             /\ game'.round_end_ts = game.round_end_ts
             /\ game'.score_red = game.score_red
             /\ game'.score_blue = game.score_blue
       /\ (ev'.op = "tick" /\ now' >= game.round_end_ts) => ev'.over
       /\ (ev'.over /\ loop_pc' # "winner")
          => /\ game'.score_red = 0 /\ game'.score_blue = 0
             /\ game'.round_end_ts = now' + ROUND_SECONDS
             /\ AtKickoff(game')
             /\ ~round_over(game', now')
             /\ snap' = snapshot(game', now')]_vars

\* the second tick reached the deadline 2 * DT without a goal, and the round
\* has been reset
RoundTerminationWitness ==
    /\ ev.op = "reset" /\ ev.over /\ now = 2 * DT
    /\ game.score_red = 0 /\ game.score_blue = 0
    /\ game.round_end_ts = now + ROUND_SECONDS
    /\ AtKickoff(game) /\ snap.timer = ROUND_SECONDS \div 1000

\* C12 (monotonic cooldown): the cooldown of a player counts down to zero
\* and stays there; it is negative in no reachable state.
CooldownNeverNegative ==
    \A i \in 1..Len(game.players) : game.players[i].cooldown >= 0

\* the input just received, and the player who sent it, before the input
LastInput == hist'.ins[Len(hist'.ins)][2]

Sender == game.players[IndexOf(game, ev'.c)]

StaminaBounded ==
    \A i \in 1..Len(game.players) :
       /\ Leq(0, game.players[i].stamina)
       /\ Leq(game.players[i].stamina, STAMINA_MAX)

\* a sprint input has just drained more than the player had left: the
\* stamina is 0
StaminaBoundedWitness ==
    /\ ev.op = "input" /\ hist.ins = <<<<1, InSprintRight>>>>
    /\ hist.base.players[1].stamina = TimesDt(STAMINA_REGEN)
    /\ hist.base.players[1].stamina < TimesDt(STAMINA_DRAIN)
    /\ game.players[1].stamina = 0

\* where the players and the ball of g are, and how fast
Kinematics(g) ==
    [players |-> [i \in 1..Len(g.players) |->
                    <<g.players[i].x, g.players[i].y, g.players[i].vx,
                      g.players[i].vy>>],
     ball |-> g.ball]

AllAtRest(g) ==
    /\ g.ball.vx = 0 /\ g.ball.vy = 0
    /\ \A i \in 1..Len(g.players) : g.players[i].vx = 0 /\ g.players[i].vy = 0

\* the ball of g is clear of the four walls and overlaps no player
BallClear(g) ==
    /\ Leq(BALL_R, g.ball.x) /\ Leq(g.ball.x, FIELD_W - BALL_R)
    /\ Leq(BALL_R, g.ball.y) /\ Leq(g.ball.y, FIELD_H - BALL_R)
    /\ \A i \in 1..Len(g.players) :
          ~Within(Sub(g.ball.x, g.players[i].x), Sub(g.ball.y, g.players[i].y),
                  BALL_R + PLAYER_R)

\* C15 (rest is a fixed point): a tick that finds every player and the
\* ball at rest, the ball clear of the walls and of every player, and that
\* does not end the round, changes no position and no velocity.
RestIsFixed ==
    [][(ev'.op = "tick" /\ ~ev'.over /\ AllAtRest(game) /\ BallClear(game))
       => Kinematics(game') = Kinematics(game)]_vars

\* two ticks have passed over the two players of Lobby and the ball, all at
\* rest, and they are where they were
RestIsFixedWitness ==
    /\ ev.op = "tick" /\ now = 2 * DT /\ ev.ins = << >>
    /\ Len(game.players) = 2 /\ AllAtRest(game) /\ BallClear(game)
    /\ Kinematics(game) = Kinematics(Lobby.game)

\* C15 as stated: a tick that finds every player and the ball at rest
\* changes no position and no velocity, wherever they are.
RestIsFixedEverywhere ==
    [][(ev'.op = "tick" /\ AllAtRest(game))
       => Kinematics(game') = Kinematics(game)]_vars

\* C16 (malformed input is absorbed): the step that receives an input
\* whose data payload is no object, or whose aimx is no number, leaves the
\* sender registered with its socket, its handler listening for the next
\* message, and sends nothing to anybody else.
MalformedAbsorbed ==
    [][ev'.op = "malformed"
       => /\ ev'.c \in Pids(game') /\ ev'.c \in game'.sockets
          /\ pc'[ev'.c] = "loop"
          /\ ev'.to = {}]_vars

\* C17 (disconnect cleanup): whenever the connection of a registered player
\* has closed, that player is eventually out of players and its socket out
\* of sockets.
DisconnectCleanup ==
    \A c \in Conns :
       (net[c] = "closed" /\ c \in Pids(game))
          ~> (c \notin Pids(game) /\ c \notin game.sockets)

\* C18 (malformed handshake is rejected): the step that receives a first
\* message that is no well-formed join (no JSON object, or an object whose
\* type is not join) sends a reject to that connection, adds no player and
\* registers no socket.
BadHandshakeRejected ==
    [][ev'.op \in {"badjoin", "badtype"}
       => /\ ev'.msg = "reject" /\ pc'[ev'.c] = "reject"
          /\ game'.players = game.players /\ game'.sockets = game.sockets]_vars

\* the number of players of g in the given team
Members(g, team) ==
    Cardinality({i \in 1..Len(g.players) : g.players[i].team = team})

\* the player the last step has added
Joined == game'.players[Len(game'.players)]

\* C19 (team assignment on join): an accepted join adds one player, in the
\* team that had fewer members just before, Red when both had as many; into
\* an empty room it is Red, next to a single Red player it is Blue.
TeamAssignment ==
    [][ev'.op = "join"
       => /\ Len(game'.players) = Len(game.players) + 1
          /\ Joined.pid = ev'.c
          /\ Members(game, TEAM_RED) < Members(game, TEAM_BLUE)
                => Joined.team = TEAM_RED
          /\ Members(game, TEAM_BLUE) < Members(game, TEAM_RED)
                => Joined.team = TEAM_BLUE
          /\ Members(game, TEAM_RED) = Members(game, TEAM_BLUE)
                => Joined.team = TEAM_RED
          /\ game.players = << >> => Joined.team = TEAM_RED
          /\ (Len(game.players) = 1 /\ game.players[1].team = TEAM_RED)
                => Joined.team = TEAM_BLUE]_vars

\* a Blue player of the full room has left and the connection that joined
\* after that has got its place in Blue
TeamAssignmentWitness ==
    /\ ev.op = "join" /\ ev.c > MAX_PLAYERS
    /\ Len(game.players) = MAX_PLAYERS
    /\ game.players[MAX_PLAYERS].pid = ev.c
    /\ game.players[MAX_PLAYERS].team = TEAM_BLUE
    /\ Members(game, TEAM_RED) = 2 /\ Members(game, TEAM_BLUE) = 2

\* C20 (connectivity errors stay local): when the join toast that the
\* handler of an open connection broadcasts fails on the socket of another
\* connection, that handler goes on to listen for messages and its player
\* stays registered.
ErrorsStayLocal ==
    [][(ev'.op = "abort" /\ pc[ev'.c] = "joincast" /\ net[ev'.c] = "open")
       => /\ ev'.c \in Pids(game') /\ ev'.c \in game'.sockets
          /\ pc'[ev'.c] = "loop"]_vars

\* C21 (order within a tick): no input of a player is applied between the
\* round-over evaluation of a tick and the building of its snapshot.
TickOrder ==
    [][ev'.op = "input" => loop_pc # "winner"]_vars

\* C22 (balance at add-time): right after an accepted join the numbers of
\* Red and of Blue players differ by at most one.
TeamBalance ==
    [][ev'.op = "join"
       => /\ Members(game', TEAM_RED) - Members(game', TEAM_BLUE) <= 1
          /\ Members(game', TEAM_BLUE) - Members(game', TEAM_RED) <= 1]_vars

\* a connection has joined the two Red players that the Blue ones left
\* behind, and has been put in Blue
TeamBalanceWitness ==
    /\ ev.op = "join" /\ Len(game.players) = 3
    /\ game.players[3].pid = ev.c /\ game.players[3].team = TEAM_BLUE
    /\ Members(game, TEAM_RED) = 2 /\ Members(game, TEAM_BLUE) = 1

\* the ball of g is within kick range of player c (line 242)
InKickRange(g, c) ==
    LET q == g.players[IndexOf(g, c)]
        dx == Sub(g.ball.x, q.x)
        dy == Sub(g.ball.y, q.y)
    IN  /\ Within(dx, dy, KickRange + 1)
        /\ dx * dx + dy * dy <= KickRange * KickRange

\* C23 (an attempted kick consumes the cooldown): an input with the kick
\* flag applied while the sender's cooldown is zero sets that cooldown to
\* KICK_COOLDOWN, the ball in range or not; with the ball out of range the
\* ball is left as it is.
KickConsumesCooldown ==
    [][(ev'.op = "input" /\ LastInput.kick /\ Sender.cooldown = 0)
       => /\ game'.players[IndexOf(game, ev'.c)].cooldown = KICK_COOLDOWN
          /\ ~InKickRange(game, ev'.c) => game'.ball = game.ball]_vars

\* a player with cooldown zero and the ball out of range has sent a kick:
\* the cooldown runs and the ball is as it was
KickConsumesCooldownWitness ==
    /\ ev.op = "input" /\ hist.ins = <<<<1, InKickRight>>>>
    /\ hist.base.players[1].cooldown = 0 /\ ~InKickRange(hist.base, 1)
    /\ game.players[1].cooldown = KICK_COOLDOWN
    /\ game.ball = hist.base.ball

\* the outcome of a round that ends r to b
Outcome(r, b) ==
    IF r > b THEN "Red wins!" ELSE IF b > r THEN "Blue wins!" ELSE "Draw!"

\* C24 (round result before reset): the tick that ends a round sends the
\* outcome of the scores the round ended with, the goal of that tick
\* counted, while those scores still stand; they stay as they are until the
\* step that follows the toast sets both to zero.
RoundResult ==
    [][/\ (ev'.op = "tick" /\ loop_pc' = "winner")
          => /\ ev'.over
             /\ game'.score_red
                   = game.score_red + (IF ev'.goal = TEAM_RED THEN 1 ELSE 0)
             /\ game'.score_blue
                   = game.score_blue + (IF ev'.goal = TEAM_BLUE THEN 1 ELSE 0)
             /\ ev'.msg = Outcome(game'.score_red, game'.score_blue)
             /\ ev'.to = {c \in game'.sockets : net[c] = "open"}
       /\ (loop_pc = "winner" /\ ev'.op # "reset")
          => /\ game'.score_red = game.score_red
             /\ game'.score_blue = game.score_blue
       /\ ev'.op = "reset"
          => /\ loop_pc = "winner"
             /\ game'.score_red = 0 /\ game'.score_blue = 0]_vars

\* Red's fifth goal has ended the round: both players have the toast
\* "Red wins!" and the score still stands at 5 to 0
RoundResultWitness ==
    /\ ev.op = "tick" /\ ev.over /\ loop_pc = "winner"
    /\ ev.msg = "Red wins!" /\ ev.to = {1, 2}
    /\ game.score_red = WIN_GOALS /\ game.score_blue = 0

\* C25 (snapshots stay below the win threshold): every snapshot built
\* carries two scores below WIN_GOALS; while a score stands at WIN_GOALS
\* game_loop is between the round-over test and the reset of that tick and
\* builds no snapshot, and what ends that wait is the reset, whose snapshot
\* shows 0 to 0.
SnapshotBelowWin ==
    [][/\ snap'.score[1] < WIN_GOALS /\ snap'.score[2] < WIN_GOALS
       /\ (game'.score_red >= WIN_GOALS \/ game'.score_blue >= WIN_GOALS)
          => /\ loop_pc' \in {"winner", "crashed"}
             /\ snap' = snap
       /\ (/\ ev'.op = "tick"
           /\ \/ ev'.goal = TEAM_RED /\ game.score_red = WIN_GOALS - 1
              \/ ev'.goal = TEAM_BLUE /\ game.score_blue = WIN_GOALS - 1)
          => ev'.over
       /\ (loop_pc = "winner" /\ loop_pc' \notin {"winner", "crashed"})
          => /\ ev'.op = "reset"
             /\ snap' = snapshot(game', now')
             /\ snap'.score = <<0, 0>>]_vars

\* Red's fifth goal has ended the round and the round has been reset: the
\* snapshot built in that tick shows 0 to 0
SnapshotBelowWinWitness ==
    /\ ev.op = "reset" /\ loop_pc = "state"
    /\ game.last_event = "GOAL! Red +1"
    /\ snap.score = <<0, 0>> /\ snap = snapshot(game, now)

\* the pairs of different players of g in one team
TeamMates(g) ==
    {ij \in (1..Len(g.players)) \X (1..Len(g.players)) :
        /\ ij[1] < ij[2]
        /\ g.players[ij[1]].team = g.players[ij[2]].team}

\* C26 (no shared spawn slot): no team has more than two members, two
\* players of one team have different spawn slots, and a reset of positions
\* puts them at different places.
DistinctSlots ==
    [][/\ Members(game', TEAM_RED) <= 2 /\ Members(game', TEAM_BLUE) <= 2
       /\ \A ij \in TeamMates(game') :
             SlotOf(game'.players, ij[1]) # SlotOf(game'.players, ij[2])
       /\ (ev'.op = "reset" \/ (ev'.op = "tick" /\ ev'.goal # 0 - 1))
          => \A ij \in TeamMates(game') :
                <<game'.players[ij[1]].x, game'.players[ij[1]].y>>
                   # <<game'.players[ij[2]].x, game'.players[ij[2]].y>>]_vars

\* the round of the two Red players has ended and they have been put near
\* the two Red slots, one each
DistinctSlotsWitness ==
    /\ ev.op = "reset" /\ Members(game, TEAM_RED) = 2
    /\ game.players[1].team = TEAM_RED /\ game.players[2].team = TEAM_RED
    /\ Abs(game.players[1].y - red_slots[1][2]) <= 20 * Scale
    /\ Abs(game.players[2].y - red_slots[2][2]) <= 20 * Scale
    /\ game.players[1].y # game.players[2].y

\* C27 (registry consistency): whenever a task is suspended, the ids of the
\* players are the ids of the registered sockets, and they are the
\* connections past the handshake that have not begun to leave.
RegistryConsistent ==
    /\ Pids(game) = game.sockets
    /\ game.sockets
          = {c \in Conns : pc[c] \in {"welcome", "joincast", "loop", "pong"}}

\* player 1 of two has gone: player 2 is the one player and the one socket
\* left, and the one the leave toast went to
RegistryConsistentWitness ==
    /\ ev.op = "closed" /\ ev.c = 1 /\ ev.msg = "left" /\ ev.to = {2}
    /\ Pids(game) = {2} /\ game.sockets = {2}

\* C28 (restart consensus): a step that starts a new game while the current
\* one is undecided finds both seats taken, by connections that have each
\* sent restart_request or restart_accept since the current game began.
RestartConsensus ==
    [][(tev'.started /\ room.game.winner = "None")
       => \A m \in {"X", "O"} :
             room.players[m] # 0 /\ room.players[m] \in tev'.asked]_vars


\* C29 (scoring): while the new game has not started, the points given since
\* the current game began are at most one, and a step that finds the game
\* decided and does not start the next one changes neither winner nor scores.
Scoring ==
    [][~tev'.started
       => /\ room'.scores["X"] + room'.scores["O"] - tev.base <= 1
          /\ room.game.winner # "None"
                => /\ room'.game.winner = room.game.winner
                   /\ room'.scores = room.scores]_vars

\* the marks m on the board
Marks(board, m) == Cardinality({rc \in Cells : board[rc] = m})

\* C30 (move legality): a move message changes the board only when the game
\* is undecided, the square is on the board and empty and the mover has the
\* turn, and then only that square; any other move is answered by an error
\* and leaves board, turn and winner as they were.  No step that stays in
\* the same game changes a filled square, and the numbers of X and O marks
\* differ by at most one.
MoveLegality ==
    [][/\ ~tev'.started
          => \A rc \in Cells :
                room.game.board[rc] # ""
                  => room'.game.board[rc] = room.game.board[rc]
       /\ tev'.op = "move"
          => LET legal == /\ room.game.winner = "None"
                          /\ \E rc \in Cells :
                                /\ room.game.board[rc] = ""
                                /\ room'.game.board[rc] = room.game.turn
                                /\ RoleOf(room, tev'.c) = room.game.turn
                                /\ \A o \in Cells \ {rc} :
                                      room'.game.board[o] = room.game.board[o]
             IN  IF room'.game.board # room.game.board
                 THEN legal /\ tev'.code \in {"board_update", "game_over"}
                 ELSE /\ room'.game = room.game
                      /\ tev'.code \in {"game_finished", "bad_coords",
                                         "space_full", "not_your_turn",
                                         "not_player"}
       /\ Marks(room'.game.board, "X") - Marks(room'.game.board, "O")
             \in {0 - 1, 0, 1}]_vars

\* a move onto a taken square has been turned away in a game under way
MoveLegalityWitness ==
    /\ tev.op = "move" /\ tev.code = "space_full"
    /\ Marks(room.game.board, "O") = 2 /\ Marks(room.game.board, "X") = 1

=============================================================================
